---- MODULE Spec2Model ----
(***************************************************************************)
(* Model of de-stash-dump2s3.py: the retention dates (save_days and its    *)
(* three tiers), the paginated folder listing (list_s3_folders) and the    *)
(* module-level backup / retention run against the object store.           *)
(*                                                                         *)
(* Strings are sequences of character codes, so that formatting, parsing,  *)
(* the key regex and the store's prefix filter are computed on characters. *)
(* A datetime is its proleptic Gregorian ordinal (day 1 = 0001-01-01), the *)
(* value timedelta arithmetic works on.                                    *)
(***************************************************************************)
EXTENDS Integers, Sequences, FiniteSets, TLC

VARIABLES
    DATE,                \* line 118: today's date, "%Y-%m-%d"
    store,               \* the bucket: the set of object keys
    databases,           \* line 128: number of databases still to back up
    exit_status,         \* line 130
    pc,                  \* position of the script
    folders,             \* list_s3_folders: the set built by the loop
    continuation_token,  \* list_s3_folders: <<>> stands for None
    existing_folders,    \* line 165: sorted list of date folders
    keep_dates,          \* line 168: save_days(DATE)
    idx,                 \* line 172: position of the for loop
    objects,             \* line 177: the keys handed to delete_objects
    requests,            \* history: the delete_objects requests of this run
    listFailed,          \* history: the listing call that raised, if any
    calls,               \* history: list_objects_v2 calls of list_s3_folders
    run,                 \* 1 for the first run of the script, 2 for the next
    previous,            \* history: how the run before this one went
    created,             \* history: an object was uploaded in this run
    exitCode             \* exit code of the process once it has ended

vars == <<DATE, store, databases, exit_status, pc, folders, continuation_token,
          existing_folders, keep_dates, idx, objects, requests, listFailed,
          calls, run, previous, created, exitCode>>

----------------------------------------------------------------------------
(* Bounds *)

FirstYear == 2023
NumDays == 800
PageCap == 2
MaxDbs == 1

----------------------------------------------------------------------------
(* Generic helpers *)

Range(s) == {s[i] : i \in 1..Len(s)}

Last(s) == s[Len(s)]

StartsWith(s, p) == Len(s) >= Len(p) /\ SubSeq(s, 1, Len(p)) = p

RECURSIVE LexLess(_, _)
LexLess(a, b) ==
    IF a = <<>> THEN b # <<>>
    ELSE IF b = <<>> THEN FALSE
    ELSE IF a[1] # b[1] THEN a[1] < b[1]
    ELSE LexLess(Tail(a), Tail(b))

MinStr(S) == CHOOSE x \in S : \A y \in S : y = x \/ LexLess(x, y)

RECURSIVE sorted(_)
sorted(S) == IF S = {} THEN <<>> ELSE <<MinStr(S)>> \o sorted(S \ {MinStr(S)})

IsDigit(c) == c \in 48..57

----------------------------------------------------------------------------
(* datetime: ordinals, strptime / strftime with "%Y-%m-%d", .day, .replace *)
(* PageCap stands for the 1000 keys a list_objects_v2 page holds at most.   *)

IsLeap(y) == y % 4 = 0 /\ (y % 100 # 0 \/ y % 400 = 0)

DaysBeforeMonth(y, m) ==
    <<0, 31, 59, 90, 120, 151, 181, 212, 243, 273, 304, 334>>[m]
        + (IF m > 2 /\ IsLeap(y) THEN 1 ELSE 0)

DaysBeforeYear(y) ==
    LET p == y - 1 IN p * 365 + (p \div 4) - (p \div 100) + (p \div 400)

ymd2ord(y, m, d) == DaysBeforeYear(y) + DaysBeforeMonth(y, m) + d

ord2ymd(ordinal) ==
    LET n0 == ordinal - 1
        n400 == n0 \div 146097
        r400 == n0 % 146097
        n100 == r400 \div 36524
        r100 == r400 % 36524
        n4 == r100 \div 1461
        r4 == r100 % 1461
        n1 == r4 \div 365
        n == r4 % 365
        year == n400 * 400 + 1 + n100 * 100 + n4 * 4 + n1
    IN  IF n1 = 4 \/ n100 = 4 THEN <<year - 1, 12, 31>>
        ELSE LET estimate == (n + 50) \div 32
                 month == IF DaysBeforeMonth(year, estimate) > n
                          THEN estimate - 1 ELSE estimate
             IN <<year, month, n - DaysBeforeMonth(year, month) + 1>>

Digits2(n) == <<48 + (n \div 10), 48 + (n % 10)>>

Digits4(n) == <<48 + (n \div 1000), 48 + ((n \div 100) % 10),
                48 + ((n \div 10) % 10), 48 + (n % 10)>>

FormatYMD(t) == Digits4(t[1]) \o <<45>> \o Digits2(t[2]) \o <<45>> \o Digits2(t[3])

strftime(ordinal) == FormatYMD(ord2ymd(ordinal))

Num(s) == IF Len(s) = 2 THEN (s[1] - 48) * 10 + (s[2] - 48)
          ELSE (s[1] - 48) * 1000 + (s[2] - 48) * 100 + (s[3] - 48) * 10 + (s[4] - 48)

ParseYMD(s) == <<Num(SubSeq(s, 1, 4)), Num(SubSeq(s, 6, 7)), Num(SubSeq(s, 9, 10))>>

strptime(s) == LET t == ParseYMD(s) IN ymd2ord(t[1], t[2], t[3])

day(ordinal) == ord2ymd(ordinal)[3]

----------------------------------------------------------------------------
(* Retention dates *)

generate_daily(input_date) ==
    LET d == strptime(input_date)
    IN [i \in 1..7 |-> strftime(d - (i - 1))]

specific_days == {22, 15, 8, 1}

RECURSIVE weekly_loop(_, _, _)
weekly_loop(input_ord, dc, result_days) ==
    IF Len(result_days) < 4
    THEN LET temp_date == input_ord - dc
         IN weekly_loop(input_ord, dc + 1,
                IF day(temp_date) \in specific_days
                THEN Append(result_days, strftime(temp_date))
                ELSE result_days)
    ELSE result_days

\* Variant: generate_weekly without the step back of one day
generate_weekly_no_step(input_date) == weekly_loop(strptime(input_date), 0, <<>>)

generate_weekly(input_date) == weekly_loop(strptime(input_date) - 1, 0, <<>>)

RECURSIVE monthly_loop(_, _)
monthly_loop(temp_date, months) ==
    IF Len(months) < 3
    THEN LET previous_month == IF temp_date[2] > 1 THEN temp_date[2] - 1 ELSE 12
             previous_year == IF temp_date[2] > 1 THEN temp_date[1] ELSE temp_date[1] - 1
             t == <<previous_year, previous_month, temp_date[3]>>
         IN monthly_loop(t, Append(months, FormatYMD(t)))
    ELSE months

\* Variant: generate_monthly without the step back of one day
generate_monthly_no_step(input_date) ==
    LET t == ord2ymd(strptime(input_date))
        temp_date == <<t[1], t[2], 1>>
    IN monthly_loop(temp_date, <<FormatYMD(temp_date)>>)

generate_monthly(input_date) ==
    LET t == ord2ymd(strptime(input_date) - 1)
        temp_date == <<t[1], t[2], 1>>
    IN monthly_loop(temp_date, <<FormatYMD(temp_date)>>)

\* Variant: the weekly tier computed from daily[0] instead of daily[-1]
save_days_from_first(input_date) ==
    LET daily == generate_daily(input_date)
        weekly == generate_weekly(daily[1])
        monthly == generate_monthly(Last(weekly))
    IN daily \o weekly \o monthly

save_days(input_date) ==
    LET daily == generate_daily(input_date)
        weekly == generate_weekly(Last(daily))
        monthly == generate_monthly(Last(weekly))
    IN daily \o weekly \o monthly

----------------------------------------------------------------------------
(* Object keys and the object store *)

\* "databases", the default of --dest
DEST_FOLDER == <<100, 97, 116, 97, 98, 97, 115, 101, 115>>

\* "04-01", a value of TIME
TIME == <<48, 52, 45, 48, 49>>

\* "<n>.sql.gz", the dump of the n-th database
filename(n) == <<96 + n, 46, 115, 113, 108, 46, 103, 122>>

\* f"{a}/{b}"
Join(a, b) == a \o <<47>> \o b

Min(a, b) == IF a < b THEN a ELSE b

\* \d{4}-\d{2}-\d{2}
IsDatePattern(s) ==
    /\ Len(s) = 10
    /\ \A i \in {1, 2, 3, 4, 6, 7, 9, 10} : IsDigit(s[i])
    /\ s[5] = 45
    /\ s[8] = 45

\* re.match(rf'^{prefix}/(\d{{4}}-\d{{2}}-\d{{2}})/', key): group(1), or <<>>
\* when there is no match
match(prefix, key) ==
    LET p == Len(prefix)
    IN  IF /\ Len(key) >= p + 12
           /\ SubSeq(key, 1, p) = prefix
           /\ key[p + 1] = 47
           /\ IsDatePattern(SubSeq(key, p + 2, p + 11))
           /\ key[p + 12] = 47
        THEN SubSeq(key, p + 2, p + 11)
        ELSE <<>>

\* One call of list_objects_v2 on bucket b: at most n keys that start with
\* Prefix, in key order, after the continuation token.
list_objects_v2(b, Prefix, ContinuationToken, n) ==
    LET rest == sorted({k \in b : StartsWith(k, Prefix) /\ LexLess(ContinuationToken, k)})
        Contents == SubSeq(rest, 1, Min(n, Len(rest)))
    IN  [Contents |-> Contents,
         IsTruncated |-> Len(rest) > Len(Contents),
         NextContinuationToken |-> IF Contents = <<>> THEN <<>> ELSE Last(Contents)]

----------------------------------------------------------------------------
(* Initial states *)

NoFailure == [kind |-> "none", folder |-> <<>>]

Idle ==
    /\ exit_status = 0
    /\ folders = {}
    /\ continuation_token = <<>>
    /\ existing_folders = <<>>
    /\ keep_dates = <<>>
    /\ idx = 0
    /\ objects = <<>>
    /\ requests = <<>>
    /\ listFailed = NoFailure
    /\ calls = 0
    /\ run = 1
    /\ previous = "none"
    /\ created = FALSE
    /\ exitCode = 0

\* The reference dates of the retention-date claims
DateRange == {strftime(ymd2ord(FirstYear, 1, 1) + i) : i \in 0..(NumDays - 1)}

\* Keys of the listing claims: dated folders, a folder that is not a date, a
\* date written without padding, a key that stops at the date, a key at the
\* top of the prefix, and a dated key of another prefix the listing returns.
ListingKeys ==
    { Join(Join(DEST_FOLDER, FormatYMD(<<2024, 2, 29>>)), <<49>>),
      Join(Join(DEST_FOLDER, FormatYMD(<<2024, 2, 29>>)), <<50>>),
      Join(Join(DEST_FOLDER, FormatYMD(<<2023, 11, 5>>)), Join(TIME, filename(1))),
      Join(Join(DEST_FOLDER, FormatYMD(<<2024, 3, 15>>)), <<>>),
      Join(Join(DEST_FOLDER, <<108, 97, 116, 101, 115, 116>>), <<49>>),
      Join(Join(DEST_FOLDER, <<50, 48, 50, 52, 45, 51, 45, 49>>), <<49>>),
      Join(DEST_FOLDER, FormatYMD(<<2024, 1, 1>>)),
      Join(DEST_FOLDER, <<49>>),
      Join(Join(DEST_FOLDER \o <<50>>, FormatYMD(<<2024, 1, 7>>)), <<49>>) }

\* Dated folders of the run: 2024-02-08 is a weekly date of 2024-03-10 and no
\* retention date of 2024-03-15, the other two are retention dates of neither.
RunFolders ==
    <<FormatYMD(<<2023, 11, 5>>), FormatYMD(<<2024, 2, 8>>), FormatYMD(<<2024, 2, 29>>)>>

Todays == {FormatYMD(<<2024, 3, 10>>), FormatYMD(<<2024, 3, 15>>)}

\* Objects per folder: up to one more than a listing page holds, and up to
\* one in the folder of the weekly date
MaxObjects(f) == IF f = 2 THEN 1 ELSE PageCap + 1

\* A key of another prefix that every listing of Prefix=databases returns
Stray == Join(Join(DEST_FOLDER \o <<50>>, FormatYMD(<<2024, 2, 29>>)), <<49>>)

Bucket(count) ==
    {Stray} \cup
    UNION { {Join(Join(DEST_FOLDER, RunFolders[f]), <<48 + i>>) : i \in 1..count[f]}
            : f \in 1..Len(RunFolders) }

InitDates ==
    /\ DATE \in DateRange
    /\ store = {}
    /\ databases = 0
    /\ pc = "keep"
    /\ Idle

InitList ==
    /\ DATE = FormatYMD(<<2024, 3, 15>>)
    /\ store \in SUBSET ListingKeys
    /\ databases = 0
    /\ pc = "list"
    /\ Idle

Init ==
    /\ DATE \in Todays
    /\ \E count \in [1..Len(RunFolders) -> 0..(PageCap + 1)] :
        /\ \A f \in 1..Len(RunFolders) : count[f] <= MaxObjects(f)
        /\ store = Bucket(count)
    /\ databases \in 0..MaxDbs
    /\ pc = "backup"
    /\ Idle

----------------------------------------------------------------------------
(* Backup loop, lines 133-154 *)

unchangedRetention ==
    UNCHANGED <<folders, continuation_token, existing_folders, keep_dates, idx,
                objects, requests, listFailed, calls>>

\* aws s3 cp returns 0: the dump is in the bucket
UploadOk ==
    /\ pc = "backup"
    /\ databases > 0
    /\ store' = store \cup {Join(Join(Join(DEST_FOLDER, DATE), TIME), filename(databases))}
    /\ created' = TRUE
    /\ databases' = databases - 1
    /\ UNCHANGED <<DATE, exit_status, pc, run, previous, exitCode>>
    /\ unchangedRetention

\* aws s3 cp returns non-zero
UploadFail ==
    /\ pc = "backup"
    /\ databases > 0
    /\ exit_status' = -1
    /\ databases' = databases - 1
    /\ UNCHANGED <<DATE, store, pc, run, previous, created, exitCode>>
    /\ unchangedRetention

\* lines 156-164: the loop is over, the client is created
Session ==
    /\ pc = "backup"
    /\ databases = 0
    /\ pc' = "list"
    /\ UNCHANGED <<DATE, store, databases, exit_status, run, previous, created, exitCode>>
    /\ unchangedRetention

----------------------------------------------------------------------------
(* list_s3_folders, lines 52-80: one iteration of the while loop *)

\* Variant: the set of folders is overwritten by each page
ListPage_last_page_only(n) ==
    /\ pc = "list"
    /\ LET response == list_objects_v2(store, DEST_FOLDER, continuation_token, n)
           found == {match(DEST_FOLDER, k) : k \in Range(response.Contents)} \ {<<>>}
       IN  /\ folders' = found
           /\ IF response.IsTruncated
              THEN /\ continuation_token' = response.NextContinuationToken
                   /\ UNCHANGED <<pc, existing_folders>>
              ELSE /\ existing_folders' = sorted(folders')
                   /\ pc' = "keep"
                   /\ UNCHANGED continuation_token
    /\ calls' = calls + 1
    /\ UNCHANGED <<DATE, store, databases, exit_status, keep_dates, idx, objects,
                   requests, listFailed, run, previous, created, exitCode>>

ListPage(n) ==
    /\ pc = "list"
    /\ LET response == list_objects_v2(store, DEST_FOLDER, continuation_token, n)
           found == {match(DEST_FOLDER, k) : k \in Range(response.Contents)} \ {<<>>}
       IN  /\ folders' = folders \cup found
           /\ IF response.IsTruncated
              THEN /\ continuation_token' = response.NextContinuationToken
                   /\ UNCHANGED <<pc, existing_folders>>
              ELSE /\ existing_folders' = sorted(folders')
                   /\ pc' = "keep"
                   /\ UNCHANGED continuation_token
    /\ calls' = calls + 1
    /\ UNCHANGED <<DATE, store, databases, exit_status, keep_dates, idx, objects,
                   requests, listFailed, run, previous, created, exitCode>>

\* list_objects_v2 raises: nothing catches it, the script dies with code 1
ListPageRaise ==
    /\ pc = "list"
    /\ pc' = "aborted"
    /\ exitCode' = 1
    /\ listFailed' = [kind |-> "folders", folder |-> <<>>]
    /\ calls' = calls + 1
    /\ UNCHANGED <<DATE, store, databases, exit_status, folders, continuation_token,
                   existing_folders, keep_dates, idx, objects, requests, run, previous, created>>

----------------------------------------------------------------------------
(* Retention, lines 167-184 *)

\* line 168
SaveDays ==
    /\ pc = "keep"
    /\ keep_dates' = save_days(DATE)
    /\ idx' = 1
    /\ pc' = "loop"
    /\ UNCHANGED <<DATE, store, databases, exit_status, folders, continuation_token,
                   existing_folders, objects, requests, listFailed, calls, run, previous,
                   created, exitCode>>

\* Variant: only the daily tier is kept
keep_folders_daily == Range(SubSeq(keep_dates, 1, 7))

\* line 169
keep_folders == Range(keep_dates)

InLoop == pc = "loop" /\ idx <= Len(existing_folders)

folder == existing_folders[idx]

\* line 173, the folder is kept: next iteration
Keep ==
    /\ InLoop
    /\ folder \in keep_folders
    /\ idx' = idx + 1
    /\ UNCHANGED <<DATE, store, databases, exit_status, pc, folders, continuation_token,
                   existing_folders, keep_dates, objects, requests, listFailed, calls,
                   run, previous, created, exitCode>>

\* line 177: the one list_objects_v2 call for the keys of the folder
ListKeys ==
    /\ InLoop
    /\ folder \notin keep_folders
    /\ objects' = list_objects_v2(store, Join(Join(DEST_FOLDER, folder), <<>>),
                                  <<>>, PageCap).Contents
    /\ pc' = "delete"
    /\ UNCHANGED <<DATE, store, databases, exit_status, folders, continuation_token,
                   existing_folders, keep_dates, idx, requests, listFailed, calls, run, previous,
                   created, exitCode>>

\* Variant: the exception is swallowed and the loop goes on
ListKeysRaise_swallowed ==
    /\ InLoop
    /\ folder \notin keep_folders
    /\ idx' = idx + 1
    /\ listFailed' = [kind |-> "keys", folder |-> folder]
    /\ UNCHANGED <<DATE, store, databases, exit_status, pc, folders, continuation_token,
                   existing_folders, keep_dates, objects, requests, calls, run, previous,
                   created, exitCode>>

\* line 177, list_objects_v2 raises: nothing catches it
ListKeysRaise ==
    /\ InLoop
    /\ folder \notin keep_folders
    /\ pc' = "aborted"
    /\ exitCode' = 1
    /\ listFailed' = [kind |-> "keys", folder |-> folder]
    /\ UNCHANGED <<DATE, store, databases, exit_status, folders, continuation_token,
                   existing_folders, keep_dates, idx, objects, requests, calls, run, previous,
                   created>>

Request(result) == [folder |-> folder, keys |-> objects, result |-> result]

\* lines 174-179, the store deletes every key of the request
DeleteOk ==
    /\ pc = "delete"
    /\ store' = store \ Range(objects)
    /\ requests' = Append(requests, Request("ok"))
    /\ idx' = idx + 1
    /\ objects' = <<>>
    /\ pc' = "loop"
    /\ UNCHANGED <<DATE, databases, exit_status, folders, continuation_token,
                   existing_folders, keep_dates, listFailed, calls, run, previous,
                   created, exitCode>>

\* lines 174-179, the response lists a key that could not be deleted under
\* 'Errors'; delete_response is never read
DeleteErrors ==
    /\ pc = "delete"
    /\ \E failed \in Range(objects) : store' = store \ (Range(objects) \ {failed})
    /\ requests' = Append(requests, Request("errors"))
    /\ idx' = idx + 1
    /\ objects' = <<>>
    /\ pc' = "loop"
    /\ UNCHANGED <<DATE, databases, exit_status, folders, continuation_token,
                   existing_folders, keep_dates, listFailed, calls, run, previous,
                   created, exitCode>>

\* lines 174-179, delete_objects raises (the store rejects the request):
\* nothing catches it
DeleteRaise ==
    /\ pc = "delete"
    /\ requests' = Append(requests, Request("raise"))
    /\ pc' = "aborted"
    /\ exitCode' = 1
    /\ UNCHANGED <<DATE, store, databases, exit_status, folders, continuation_token,
                   existing_folders, keep_dates, idx, objects, listFailed, calls, run, previous,
                   created>>

\* lines 181-184
Exit ==
    /\ pc = "loop"
    /\ idx > Len(existing_folders)
    /\ pc' = "exited"
    /\ exitCode' = exit_status
    /\ UNCHANGED <<DATE, store, databases, exit_status, folders, continuation_token,
                   existing_folders, keep_dates, idx, objects, requests, listFailed,
                   calls, run, previous, created>>

----------------------------------------------------------------------------
(* Environment *)

\* Another client of the bucket removes every object of one dated folder,
\* after list_s3_folders has returned and before the keys of the folder are
\* listed. (A removal before the folder listing leaves a bucket that is
\* another initial state; one after the keys are listed changes no request.)
ExternalEmpty ==
    /\ pc \in {"keep", "loop"}
    /\ \E f \in Range(RunFolders) :
        LET under == {k \in store : StartsWith(k, Join(Join(DEST_FOLDER, f), <<>>))}
        IN  /\ under # {}
            /\ store' = store \ under
    /\ UNCHANGED <<DATE, databases, exit_status, pc, folders, continuation_token,
                   existing_folders, keep_dates, idx, objects, requests, listFailed,
                   calls, run, previous, created, exitCode>>

\* The run has ended normally and every store call of it succeeded
Clean == pc = "exited" /\ \A i \in 1..Len(requests) : requests[i].result = "ok"

\* The script is started again on the same day, after a run that ended
\* normally
Rerun ==
    /\ pc = "exited"
    /\ run = 1
    /\ run' = 2
    /\ pc' = "backup"
    /\ databases' \in 0..MaxDbs
    /\ exit_status' = 0
    /\ folders' = {}
    /\ continuation_token' = <<>>
    /\ existing_folders' = <<>>
    /\ keep_dates' = <<>>
    /\ idx' = 0
    /\ objects' = <<>>
    /\ listFailed' = NoFailure
    /\ calls' = 0
    /\ created' = FALSE
    /\ exitCode' = 0
    /\ requests' = <<>>
    /\ previous' = IF Clean THEN "clean" ELSE "failed"
    /\ UNCHANGED <<DATE, store>>

----------------------------------------------------------------------------
(* Specifications *)

NextDates == SaveDays

SpecDates == InitDates /\ [][NextDates]_vars

NextList ==
    \/ \E n \in 1..PageCap : ListPage(n)

SpecList == InitList /\ [][NextList]_vars

Next ==
    \/ UploadOk
    \/ UploadFail
    \/ Session
    \/ ListPage(PageCap)
    \/ ListPageRaise
    \/ SaveDays
    \/ Keep
    \/ ListKeys
    \/ ListKeysRaise
    \/ DeleteOk
    \/ DeleteErrors
    \/ DeleteRaise
    \/ Exit
    \/ ExternalEmpty
    \/ Rerun

Spec == Init /\ [][Next]_vars

----------------------------------------------------------------------------
(* Retention dates: claims checked under SpecDates *)

Computed == pc = "loop" /\ Len(keep_dates) = 14

Daily == SubSeq(keep_dates, 1, 7)

Weekly == SubSeq(keep_dates, 8, 11)

Monthly == SubSeq(keep_dates, 12, 14)

WellFormed(s) == IsDatePattern(s) /\ strftime(strptime(s)) = s

\* w is the list of the first 4 dates whose day of month is 22, 15, 8 or 1,
\* met going back one day at a time from the day `anchor` (included)
FirstFourFrom(anchor, w) ==
    /\ Len(w) = 4
    /\ \A i \in 1..4 : WellFormed(w[i]) /\ ParseYMD(w[i])[3] \in {22, 15, 8, 1}
    /\ strptime(w[1]) <= anchor
    /\ \A i \in 1..3 : strptime(w[i + 1]) < strptime(w[i])
    /\ \A d \in strptime(w[4])..anchor :
           ord2ymd(d)[3] \in {22, 15, 8, 1} => strftime(d) \in Range(w)

\* C6, as claimed: the weekly tier of save_days(today) is the first 4 dates
\* with day of month in {22, 15, 8, 1} going back from today - 1 day.
C6_WeeklyFromYesterday ==
    pc = "loop" => Computed /\ FirstFourFrom(strptime(DATE) - 1, Weekly)

\* C6, amended: the weekly tier of save_days(today) is the first 4 dates with
\* day of month in {22, 15, 8, 1} going back from today - 7 days, the day
\* before the oldest date of the daily tier.
C6_WeeklyFromDayBeforeDaily ==
    pc = "loop" => Computed /\ FirstFourFrom(strptime(DATE) - 7, Weekly)

\* save_days has run on a date with one of the four days of month among its
\* six preceding days
C6_Witness ==
    /\ Computed
    /\ \E j \in 1..6 : ord2ymd(strptime(DATE) - j)[3] \in {22, 15, 8, 1}

PreviousMonth(t) == IF t[2] > 1 THEN <<t[1], t[2] - 1, 1>> ELSE <<t[1] - 1, 12, 1>>

\* C7: the monthly tier has exactly 3 dates, each the first day of a month,
\* of consecutive months going back (December of the year before after
\* January), the first being the month of (last weekly date - 1 day).
C7_MonthlyTier ==
    pc = "loop" =>
        /\ Computed
        /\ \A i \in 1..3 : WellFormed(Monthly[i]) /\ ParseYMD(Monthly[i])[3] = 1
        /\ \A i \in 1..2 : ParseYMD(Monthly[i + 1]) = PreviousMonth(ParseYMD(Monthly[i]))
        /\ LET anchor == ord2ymd(strptime(Weekly[4]) - 1)
           IN ParseYMD(Monthly[1]) = <<anchor[1], anchor[2], 1>>

\* save_days has run, the last weekly date is a first of month and the three
\* months span two years
C7_Witness ==
    /\ Computed
    /\ ParseYMD(Weekly[4])[3] = 1
    /\ ParseYMD(Monthly[1])[1] # ParseYMD(Monthly[3])[1]

\* C10: daily + weekly + monthly is strictly decreasing in time, so the
\* tiers are pairwise disjoint and the keep-set has exactly 14 dates.
C10_TiersStrictlyDecreasing ==
    pc = "loop" =>
        /\ Computed
        /\ \A i \in 1..14 : WellFormed(keep_dates[i])
        /\ \A i \in 1..13 : strptime(keep_dates[i + 1]) < strptime(keep_dates[i])
        /\ Range(Daily) \cap Range(Weekly) = {}
        /\ Range(Weekly) \cap Range(Monthly) = {}
        /\ Range(Daily) \cap Range(Monthly) = {}
        /\ Cardinality(keep_folders) = 14

\* save_days has run and the tiers are as close as they get: the first
\* weekly date is the day before the last daily date, the first monthly
\* date is in the month of the last weekly date
C10_Witness ==
    /\ Computed
    /\ strptime(Weekly[1]) = strptime(Daily[7]) - 1
    /\ strptime(Monthly[1]) = strptime(Weekly[4]) - 7

----------------------------------------------------------------------------
(* Folder listing: claim checked under SpecList *)

\* f"{DEST_FOLDER}/{f}/"
FolderPrefix(f) == Join(Join(DEST_FOLDER, f), <<>>)

\* The date folders of a bucket, read off its keys
DateFolders(b) ==
    {f \in {SubSeq(k, Len(DEST_FOLDER) + 2, Len(DEST_FOLDER) + 11) :
                k \in {x \in b : Len(x) > Len(DEST_FOLDER) + 11}} :
        IsDatePattern(f) /\ \E k \in b : StartsWith(k, FolderPrefix(f))}

\* The folders of one listing that returns every key in a single page
Unpaginated ==
    LET response == list_objects_v2(store, DEST_FOLDER, <<>>, Cardinality(store) + 1)
    IN {match(DEST_FOLDER, k) : k \in Range(response.Contents)} \ {<<>>}

\* C8: whatever the pages, list_s3_folders ends when a page is not truncated
\* and returns the sorted, duplicate-free list of the date folders that one
\* unpaginated listing of the same keys gives; other keys add nothing.
C8_PaginationIndependent ==
    /\ pc = "list" => calls <= Cardinality(store)
    /\ pc = "keep" =>
        /\ Range(existing_folders) = Unpaginated
        /\ Range(existing_folders) = DateFolders(store)
        /\ \A i \in 1..(Len(existing_folders) - 1) :
               LexLess(existing_folders[i], existing_folders[i + 1])
        /\ calls <= Cardinality(store) + 1

\* The listing took three pages or more, found two folders or more, one of
\* them more than once, and met keys that are no date folder
C8_Witness ==
    /\ pc = "keep"
    /\ calls >= 3
    /\ Len(existing_folders) >= 2
    /\ \E k \in store : match(DEST_FOLDER, k) = <<>>
    /\ \E k1, k2 \in store : k1 # k2 /\ match(DEST_FOLDER, k1) = match(DEST_FOLDER, k2)
                                /\ match(DEST_FOLDER, k1) # <<>>

----------------------------------------------------------------------------
(* The run: claims checked under Spec *)

\* The keep-set of save_days for each reference date of the run
KeepSets == [d \in Todays |-> Range(save_days(d))]

KeepDates == KeepSets[DATE]

\* Each reference date of the run with the six days before it
LastWeeks == [d \in Todays |-> {strftime(strptime(d) - j) : j \in 0..6}]

Ended == pc \in {"exited", "aborted"}

toDelete == Range(existing_folders) \ KeepDates

DeleteFailed == \E i \in 1..Len(requests) : requests[i].result # "ok"

\* C1: no delete request names a key under a folder of the keep-set of
\* save_days(DATE); today's folder and the six days before are never touched.
C1_KeptFoldersUntouched ==
    requests # <<>> =>
        LET keep == KeepDates \cup LastWeeks[DATE]
        IN  \A i \in 1..Len(requests) :
                /\ requests[i].folder \notin keep
                /\ \A k \in Range(requests[i].keys) :
                       \A f \in keep : ~StartsWith(k, FolderPrefix(f))

\* The run has ended after a delete request, and a listed folder of the
\* keep-set still has its objects
C1_Witness ==
    /\ pc = "exited"
    /\ requests # <<>>
    /\ \E f \in Range(existing_folders) :
        /\ f \in KeepDates
        /\ \E k \in store : StartsWith(k, FolderPrefix(f))

\* C2, as claimed: when a delete fails, every folder of toDelete is still
\* attempted and the run ends with a non-zero outcome; when no delete, upload
\* or listing fails, the outcome is zero.
C2_DeleteFailureReported ==
    Ended =>
        /\ DeleteFailed =>
            /\ \A f \in toDelete : \E i \in 1..Len(requests) : requests[i].folder = f
            /\ exitCode # 0
        /\ (~DeleteFailed /\ exit_status = 0 /\ listFailed = NoFailure) => exitCode = 0

\* C3, as claimed: after a run in which every store call succeeds, no object
\* remains under any folder of toDelete.
C3_DoomedFoldersEmptied ==
    (pc = "exited" /\ ~DeleteFailed) =>
        \A f \in toDelete : \A k \in store : ~StartsWith(k, FolderPrefix(f))

\* C4, as claimed: in a second run on the same date, after a first run whose
\* store calls all succeeded and with no object created since, the delete
\* set is empty and no delete request is sent.
C4_SecondRunDeletesNothing ==
    (run = 2 /\ previous = "clean" /\ ~created) =>
        /\ requests = <<>>
        /\ pc \in {"keep", "loop", "delete", "exited"} => toDelete = {}

\* C5, as claimed: when a listing call fails, no delete request is issued in
\* the run, neither before nor after the failure.
C5_NoDeleteWhenListingFails ==
    listFailed # NoFailure => pc = "aborted" /\ requests = <<>>

\* C5, amended: a listing failure ends the run at once. When a page of the
\* folder listing fails no delete request is issued in the run; when the
\* listing of a folder's keys fails no delete request is issued for that
\* folder or a later one, those for the folders before it have been issued.
C5_ListingFailureAborts ==
    listFailed # NoFailure =>
        /\ pc = "aborted"
        /\ listFailed.kind = "folders" => requests = <<>>
        /\ listFailed.kind = "keys" =>
               \A i \in 1..Len(requests) :
                   LexLess(requests[i].folder, listFailed.folder)

\* The listing of the keys of a folder has failed after a delete request
\* for an earlier folder
C5_Witness ==
    /\ listFailed.kind = "keys"
    /\ requests # <<>>

\* C9, as claimed: no delete request is sent for a folder that holds no key
\* when its keys are listed, and the run goes on.
C9_NoEmptyDeleteRequest ==
    /\ pc = "delete" => objects # <<>>
    /\ \A i \in 1..Len(requests) : requests[i].keys # <<>>

====
